---- MODULE Spec2Model ----
(***************************************************************************)
(* Model of bezier_lib (src/src/lib.rs): the identifier allocator new_id,  *)
(* the curve builder bezier_open, the BezierDrag resource and the three    *)
(* pointer observers drag_start, bezier_drag and drag_end.                 *)
(*                                                                         *)
(* Vec2 coordinates are f32 in the source; the model uses small integers,  *)
(* on which f32 addition and subtraction are exact.  Option<T> is a        *)
(* sequence: <<>> for None and <<v>> for Some(v).  A panic (a failed       *)
(* unwrap or assert!) stops the program: `panic` records which one, and no *)
(* handler runs afterwards; the commands queued by the panicking handler   *)
(* are never applied.  The commands a handler queues are applied when it   *)
(* returns, as part of the same step.                                      *)
(***************************************************************************)
EXTENDS Integers, Sequences, FiniteSets, TLC

VARIABLES
    world,       \* live entities: entity id -> components
    drag,        \* the BezierDrag resource
    style,       \* the BezierStyle resource
    pointer,     \* Option<Entity>: the target of the pointer drag in progress
    panic,       \* "none", or the place the program panicked
    lastEvent,   \* the handler that ran last, its input and the state it found
    steps,       \* number of pointer events delivered so far
    updated,     \* per curve: the anchors at the last Drag-Update of its latest drag
    BEZIER_ID,   \* the counter behind the mutex
    mutex,       \* Option<thread>: the holder of the BEZIER_ID lock
    pc,          \* per thread: position inside new_id
    loaded,      \* per thread: the value read by `*bezier_id += 1`
    result,      \* per thread: the value new_id is about to return
    calls,       \* per thread: number of new_id calls started
    issued,      \* the values returned by new_id, in order of return
    built        \* arguments and result of a direct bezier_open call

vars == <<world, drag, style, pointer, panic, lastEvent, steps, updated,
          BEZIER_ID, mutex, pc, loaded, result, calls, issued, built>>

dragVars  == <<world, drag, style, pointer, panic, lastEvent, steps, updated>>
allocVars == <<BEZIER_ID, mutex, pc, loaded, result, calls, issued>>

----------------------------------------------------------------------------
(* Bounds *)

MaxSteps   == 6    \* pointer events per behaviour
NumCurves  == 2    \* curves the host seeds, at most
NumThreads == 2    \* threads calling new_id
MaxCalls   == 2    \* new_id calls per thread

----------------------------------------------------------------------------
(* Option<T> and Vec2 *)

None == <<>>
Some(v) == <<v>>
IsSome(o) == o # <<>>
IsNone(o) == o = <<>>
Unwrap(o) == o[1]

Vec2(x, y) == <<x, y>>

----------------------------------------------------------------------------
(* BezierShapeType, BezierShape, ShapeType *)

AnchorTypes == {"Start", "ControlStart", "ControlEnd", "End"}
BezierShapeType == AnchorTypes \cup {"Line", "BezierLine"}

BezierShape(shape_type, id, point) ==
    [shape_type |-> shape_type, id |-> id, point |-> point]

\* ShapeType::Bezier(b) carries Some(b); the other variants carry nothing.
ShapeTypeBezier(bezier_shape) == [variant |-> "Bezier", bezier |-> Some(bezier_shape)]
ShapeTypePlain(variant) == [variant |-> variant, bezier |-> None]

PlainVariants == {"Intersection", "Main", "Sketch"}

----------------------------------------------------------------------------
(* BezierStyle *)

BezierStyleDefault ==
    [intersection_color  |-> "red",
     sketch_color        |-> "grey",
     intersection_radius |-> 6,
     bezier_stroke_width |-> 4,
     sketch_stroke_width |-> 1,
     bezier_line_color   |-> "sand"]

\* A style the host installs in place of the default one.
BezierStyleHost ==
    [intersection_color  |-> "blue",
     sketch_color        |-> "black",
     intersection_radius |-> 9,
     bezier_stroke_width |-> 3,
     sketch_stroke_width |-> 2,
     bezier_line_color   |-> "green"]

Styles == {BezierStyleDefault, BezierStyleHost}

----------------------------------------------------------------------------
(* bezier_open: the curve builder *)

Circle(radius, center, color) ==
    [geom |-> "Circle", pts |-> <<center>>, size |-> radius, color |-> color]
LineShape(p, q, color, width) ==
    [geom |-> "Line", pts |-> <<p, q>>, size |-> width, color |-> color]
CubicShape(p0, p1, p2, p3, color, width) ==
    [geom |-> "Cubic", pts |-> <<p0, p1, p2, p3>>, size |-> width, color |-> color]

\* A pair (Shape, ShapeType) of the returned Vec.
Pair(shape, shape_type) == [shape |-> shape, shape_type |-> shape_type]

\* bezier_open with the ControlEnd marker tagged with b's position.
bezier_open_wrong_point(st, id, a, b, c, d) ==
    LET radius == st.intersection_radius - 1
        tag(role, point) == ShapeTypeBezier(BezierShape(role, id, point))
        line(p, q) == LineShape(p, q, st.sketch_color, st.sketch_stroke_width)
        dot(p) == Circle(radius, p, st.intersection_color)
    IN << Pair(dot(a), tag("Start", Some(a))),
          Pair(CubicShape(a, b, c, d, st.bezier_line_color, st.bezier_stroke_width),
               tag("BezierLine", None)),
          Pair(line(a, b), tag("Line", None)),
          Pair(dot(b), tag("ControlStart", Some(b))),
          Pair(line(b, c), tag("Line", None)),
          Pair(dot(c), tag("ControlEnd", Some(b))),
          Pair(line(c, d), tag("Line", None)),
          Pair(dot(d), tag("End", Some(d))) >>

bezier_open(st, id, a, b, c, d) ==
    LET radius == st.intersection_radius - 1
        stroke == st.sketch_stroke_width
        thick_stroke_width == st.bezier_stroke_width
        i_color == st.intersection_color
        color == st.sketch_color
        bezier_color == st.bezier_line_color
    IN << Pair(Circle(radius, a, i_color),
               ShapeTypeBezier(BezierShape("Start", id, Some(a)))),
          Pair(CubicShape(a, b, c, d, bezier_color, thick_stroke_width),
               ShapeTypeBezier(BezierShape("BezierLine", id, None))),
          Pair(LineShape(a, b, color, stroke),
               ShapeTypeBezier(BezierShape("Line", id, None))),
          Pair(Circle(radius, b, i_color),
               ShapeTypeBezier(BezierShape("ControlStart", id, Some(b)))),
          Pair(LineShape(b, c, color, stroke),
               ShapeTypeBezier(BezierShape("Line", id, None))),
          Pair(Circle(radius, c, i_color),
               ShapeTypeBezier(BezierShape("ControlEnd", id, Some(c)))),
          Pair(LineShape(c, d, color, stroke),
               ShapeTypeBezier(BezierShape("Line", id, None))),
          Pair(Circle(radius, d, i_color),
               ShapeTypeBezier(BezierShape("End", id, Some(d)))) >>

----------------------------------------------------------------------------
(* BezierDrag *)

BezierDragDefault ==
    [bezier_id   |-> 0,
     entity      |-> None,
     dragging    |-> "Start",
     start_click |-> None,
     a |-> None, b |-> None, c |-> None, d |-> None]

\* clear_drag that also resets the dragged role.
clear_drag_resets_role(self) ==
    [self EXCEPT !.bezier_id = 0, !.entity = None, !.start_click = None,
                 !.dragging = "Start",
                 !.a = None, !.b = None, !.c = None, !.d = None]

\* clear_drag that forgets start_click.
clear_drag_keeps_click(self) ==
    [self EXCEPT !.bezier_id = 0, !.entity = None,
                 !.a = None, !.b = None, !.c = None, !.d = None]

\* clear_drag that forgets the last anchor.
clear_drag_keeps_d(self) ==
    [self EXCEPT !.bezier_id = 0, !.entity = None, !.start_click = None,
                 !.a = None, !.b = None, !.c = None]

clear_drag(self) ==
    [self EXCEPT !.bezier_id = 0,
                 !.entity = None,
                 !.start_click = None,
                 !.a = None, !.b = None, !.c = None, !.d = None]

\* Moved without the vertical sign flip.
MovedNoFlip(point, delta) == <<point[1] + delta[1], point[2] + delta[2]>>

\* Vec2::new(point.x + delta.x, point.y - delta.y)
Moved(point, delta) == Vec2(point[1] + delta[1], point[2] - delta[2])

\* Unwrapped with the BezierLine arm forgetting d.
UnwrappedBezierLineShort(dragging) ==
    CASE dragging = "Start"        -> <<"a">>
      [] dragging = "ControlStart" -> <<"b">>
      [] dragging = "ControlEnd"   -> <<"c">>
      [] dragging = "End"          -> <<"d">>
      [] dragging = "Line"         -> <<>>
      [] dragging = "BezierLine"   -> <<"a", "b", "c">>

\* Unwrapped with the Line arm moving the start anchor.
UnwrappedLineMoves(dragging) ==
    CASE dragging = "Start"        -> <<"a">>
      [] dragging = "ControlStart" -> <<"b">>
      [] dragging = "ControlEnd"   -> <<"c">>
      [] dragging = "End"          -> <<"d">>
      [] dragging = "Line"         -> <<"a">>
      [] dragging = "BezierLine"   -> <<"a", "b", "c", "d">>

\* The anchors add_delta unwraps, in the order it unwraps them.
Unwrapped(dragging) ==
    CASE dragging = "Start"        -> <<"a">>
      [] dragging = "ControlStart" -> <<"b">>
      [] dragging = "ControlEnd"   -> <<"c">>
      [] dragging = "End"          -> <<"d">>
      [] dragging = "Line"         -> <<>>
      [] dragging = "BezierLine"   -> <<"a", "b", "c", "d">>

\* add_delta over the anchors `todo`: each is unwrapped and replaced in turn;
\* the first absent one panics and leaves the earlier ones already replaced.
RECURSIVE AddDeltaTo(_, _, _)
AddDeltaTo(self, todo, delta) ==
    IF todo = <<>> THEN [drag |-> self, ok |-> TRUE]
    ELSE LET f == Head(todo) IN
         IF IsNone(self[f]) THEN [drag |-> self, ok |-> FALSE]
         ELSE AddDeltaTo([self EXCEPT ![f] = Some(Moved(Unwrap(self[f]), delta))],
                         Tail(todo), delta)

add_delta(self, delta) == AddDeltaTo(self, Unwrapped(self.dragging), delta)

----------------------------------------------------------------------------
(* The world: entities and their components *)

\* An entity with a Shape and a ShapeType; z is Transform.translation.z in
\* units of 0.01.
Primitive(pair, z) ==
    [shape |-> Some(pair.shape), shape_type |-> Some(pair.shape_type),
     hidden |-> FALSE, z |-> z]

\* An entity of the host that has no ShapeType component.
Untagged == [shape |-> None, shape_type |-> None, hidden |-> FALSE, z |-> 0]

Entities == DOMAIN world

\* Query<(Entity, &mut Shape, &ShapeType)>: the entities it matches.
Matches(w, e) == e \in DOMAIN w /\ IsSome(w[e].shape) /\ IsSome(w[e].shape_type)

IsBezier(w, e) == Matches(w, e) /\ Unwrap(w[e].shape_type).variant = "Bezier"
BezierOf(w, e) == Unwrap(Unwrap(w[e].shape_type).bezier)

\* The entities of curve `id`.
CurveEntities(w, id) == {e \in DOMAIN w : IsBezier(w, e) /\ BezierOf(w, e).id = id}

\* The n smallest entity ids not in `used`.
RECURSIVE FreshIds(_, _)
FreshIds(n, used) ==
    IF n = 0 THEN <<>>
    ELSE LET e == CHOOSE x \in 1..(Cardinality(used) + 1) : x \notin used
                      /\ \A y \in 1..(x - 1) : y \in used
         IN <<e>> \o FreshIds(n - 1, used \cup {e})

\* A spawn loop that spawns nothing.
SpawnNothing(w, shapes) == w

\* commands.spawn of every pair of `shapes`, the n-th at depth n.
Spawn(w, shapes) ==
    LET ids == FreshIds(Len(shapes), DOMAIN w)
        new == {ids[i] : i \in 1..Len(ids)}
        idx(e) == CHOOSE i \in 1..Len(ids) : ids[i] = e
    IN [e \in DOMAIN w \cup new |->
           IF e \in DOMAIN w THEN w[e] ELSE Primitive(shapes[idx(e)], idx(e) - 1)]

\* A despawn that removes nothing.
DespawnNothing(w, gone) == w

\* commands.entity(e).despawn() for every e of `gone`.
Despawn(w, gone) == [e \in DOMAIN w \ gone |-> w[e]]

\* A Drag-Start that despawns the clicked entity instead of hiding it.
HideDespawns(w, e) == [x \in DOMAIN w \ {e} |-> w[x]]

\* commands.entity(e).insert(Visibility::Hidden)
Hide(w, e) == [w EXCEPT ![e].hidden = TRUE]

----------------------------------------------------------------------------
(* Initial state: BezierPlugin::build and the host's scene *)

\* The host seeds curve k with bezier_open; curve 1 is id 7 with anchors
\* (0,0), (10,0), (10,10), (0,10), the others are shifted copies.
SeedId(k) == 6 + k
SeedShapes(k) ==
    LET o == 20 * (k - 1)
    IN bezier_open(BezierStyleDefault, SeedId(k),
                   Vec2(o, 0), Vec2(o + 10, 0), Vec2(o + 10, 10), Vec2(o, 10))

RECURSIVE SeedWorld(_)
SeedWorld(k) ==
    IF k = 0
    THEN LET plain(v) == [Untagged EXCEPT !.shape = Some(Circle(1, Vec2(0, 0), "white")),
                                          !.shape_type = Some(ShapeTypePlain(v))]
         IN <<plain("Intersection"), plain("Main"), plain("Sketch"), Untagged>>
    ELSE LET prev == SeedWorld(k - 1)
             sh == SeedShapes(k)
         IN prev \o [i \in 1..Len(sh) |-> Primitive(sh[i], i - 1)]

NoEvent == [handler |-> "none", target |-> None, delta |-> None]

\* The arguments of a bezier_open call: style, id, a, b, c, d.
BuildIds == {0, 1, 7}
BuildPoints == {Vec2(0, 0), Vec2(10, 0), Vec2(-3, 4)}
BuildArgs ==
    [st : Styles, id : BuildIds,
     a : BuildPoints, b : BuildPoints, c : BuildPoints, d : BuildPoints]
BuiltIdle ==
    [args |-> [st |-> BezierStyleDefault, id |-> 0, a |-> Vec2(0, 0), b |-> Vec2(0, 0),
               c |-> Vec2(0, 0), d |-> Vec2(0, 0)],
     shapes |-> None]

Threads == 1..NumThreads

DragInit ==
    /\ world = SeedWorld(NumCurves)
    /\ drag = BezierDragDefault
    /\ style = BezierStyleDefault
    /\ pointer = None
    /\ panic = "none"
    /\ lastEvent = NoEvent
    /\ steps = 0
    /\ updated = [k \in 1..NumCurves |-> None]

AllocInit ==
    /\ BEZIER_ID = 0
    /\ mutex = None
    /\ pc = [t \in Threads |-> "idle"]
    /\ loaded = [t \in Threads |-> 0]
    /\ result = [t \in Threads |-> 0]
    /\ calls = [t \in Threads |-> 0]
    /\ issued = <<>>

Init == DragInit /\ AllocInit /\ built = BuiltIdle

----------------------------------------------------------------------------
(* drag_start *)

\* The positions the scan of drag_start can leave in the slot of `role`:
\* the position of a primitive of that role and curve (the last one the
\* query yields, in an order the source does not fix), or the old value
\* when there is none.
Scanned(w, id, role, old) ==
    LET pts == {BezierOf(w, e).point :
                  e \in {x \in CurveEntities(w, id) : BezierOf(w, x).shape_type = role}}
    IN IF pts = {} THEN {old} ELSE pts

drag_start(target, position) ==
    IF ~Matches(world, target)
    THEN UNCHANGED <<world, drag, panic>>
    ELSE IF ~IsBezier(world, target)
    THEN /\ world' = Hide(world, target)
         /\ UNCHANGED <<drag, panic>>
    ELSE LET bezier_shape == BezierOf(world, target)
             bezier_id == bezier_shape.id
             d0 == [drag EXCEPT !.bezier_id = bezier_id,
                                !.entity = Some(target),
                                !.start_click = Some(position),
                                !.dragging = bezier_shape.shape_type]
         IN \E pa \in Scanned(world, bezier_id, "Start", d0.a),
               pb \in Scanned(world, bezier_id, "ControlStart", d0.b),
               pc2 \in Scanned(world, bezier_id, "ControlEnd", d0.c),
               pd \in Scanned(world, bezier_id, "End", d0.d) :
               /\ drag' = [d0 EXCEPT !.a = pa, !.b = pb, !.c = pc2, !.d = pd]
               /\ IF IsSome(pa) /\ IsSome(pb) /\ IsSome(pc2) /\ IsSome(pd)
                  THEN world' = Hide(world, target) /\ panic' = panic
                  ELSE world' = world /\ panic' = "drag_start_assert"

----------------------------------------------------------------------------
(* bezier_drag *)

\* The despawn loop without the `drag_entity != entity` test.
DoomedWithTarget(w, id, target) == CurveEntities(w, id)

\* The despawn loop without the `bezier.id == drag.bezier_id` test.
DoomedAnyCurve(w, id, target) == {e \in DOMAIN w : IsBezier(w, e)} \ {target}

\* The entities the loop of bezier_drag despawns: those of curve `id`
\* other than the event's target.
Doomed(w, id, target) == CurveEntities(w, id) \ {target}

bezier_drag(target, delta) ==
    IF ~Matches(world, target)
    THEN UNCHANGED <<world, drag, panic>>
    ELSE LET gone == Doomed(world, drag.bezier_id, target)
             r == add_delta(drag, delta)
             dr == r.drag
         IN /\ drag' = dr
            /\ IF ~r.ok
               THEN world' = world /\ panic' = "add_delta_unwrap"
               ELSE IF IsNone(dr.a) \/ IsNone(dr.b) \/ IsNone(dr.c) \/ IsNone(dr.d)
               THEN world' = world /\ panic' = "bezier_drag_unwrap"
               ELSE /\ world' = Despawn(Spawn(world,
                                     bezier_open(style, dr.bezier_id, Unwrap(dr.a),
                                                 Unwrap(dr.b), Unwrap(dr.c), Unwrap(dr.d))),
                                        gone)
                    /\ panic' = panic

----------------------------------------------------------------------------
(* drag_end *)

\* An unwrap replaced by a silent `if let Some(..)`.
UnwrapNeverPanics(o) == FALSE

\* drag.entity.unwrap() panics on None.
UnwrapPanics(o) == IsNone(o)

\* The entity an Option<Entity> holds, as a set.
Held(o) == {o[i] : i \in DOMAIN o}

drag_end ==
    IF UnwrapPanics(drag.entity)
    THEN /\ panic' = "drag_end_unwrap"
         /\ UNCHANGED <<world, drag, pointer>>
    ELSE /\ world' = Despawn(world, Held(drag.entity))
         /\ drag' = clear_drag(drag)
         /\ pointer' = None
         /\ panic' = panic

----------------------------------------------------------------------------
(* Pointer events, delivered one at a time by the host *)

Clicks == {Vec2(3, 4)}
Deltas == {Vec2(5, -5), Vec2(-3, 2)}

Running == panic = "none" /\ steps < MaxSteps

\* The four anchors of a Drag State.
Anchors(self) == <<self.a, self.b, self.c, self.d>>

PointerDragStart(e, position) ==
    /\ Running
    /\ IsNone(pointer)
    /\ e \in Entities
    /\ pointer' = Some(e)
    /\ drag_start(e, position)
    /\ lastEvent' = [handler |-> "drag_start", target |-> Some(e), delta |-> None]
    /\ steps' = steps + 1
    /\ updated' = IF IsBezier(world, e)
                  THEN [k \in 1..NumCurves |->
                          IF SeedId(k) = BezierOf(world, e).id THEN None ELSE updated[k]]
                  ELSE updated
    /\ UNCHANGED <<style, allocVars, built>>

PointerDrag(delta) ==
    /\ Running
    /\ IsSome(pointer)
    /\ bezier_drag(Unwrap(pointer), delta)
    /\ lastEvent' = [handler |-> "bezier_drag", target |-> pointer, delta |-> Some(delta)]
    /\ steps' = steps + 1
    /\ updated' = IF panic' = "none" /\ Matches(world, Unwrap(pointer))
                  THEN [k \in 1..NumCurves |->
                          IF SeedId(k) = drag'.bezier_id THEN Some(Anchors(drag'))
                          ELSE updated[k]]
                  ELSE updated
    /\ UNCHANGED <<pointer, style, allocVars, built>>

PointerDragEnd ==
    /\ Running
    /\ IsSome(pointer)
    /\ drag_end
    /\ lastEvent' = [handler |-> "drag_end", target |-> pointer, delta |-> None]
    /\ steps' = steps + 1
    /\ UNCHANGED <<updated, style, allocVars, built>>

Next ==
    \/ \E e \in Entities, position \in Clicks : PointerDragStart(e, position)
    \/ PointerDragEnd
    \/ \E delta \in Deltas : PointerDrag(delta)

Spec == Init /\ [][Next]_vars

----------------------------------------------------------------------------
(* new_id, called by several threads *)

\* A lock that never blocks.
LockNeverBlocks(m) == TRUE

\* BEZIER_ID.lock() returns once no thread holds the mutex.
LockAvailable(m) == IsNone(m)

\* A thread enters new_id and blocks in lock() ...
Call(t) ==
    /\ pc[t] = "idle"
    /\ calls[t] < MaxCalls
    /\ calls' = [calls EXCEPT ![t] = @ + 1]
    /\ pc' = [pc EXCEPT ![t] = "waiting"]
    /\ UNCHANGED <<BEZIER_ID, mutex, loaded, result, issued>>
    /\ UNCHANGED <<dragVars, built>>

\* ... until it holds the mutex.
Lock(t) ==
    /\ pc[t] = "waiting"
    /\ LockAvailable(mutex)
    /\ mutex' = Some(t)
    /\ pc' = [pc EXCEPT ![t] = "locked"]
    /\ UNCHANGED <<BEZIER_ID, loaded, result, calls, issued>>
    /\ UNCHANGED <<dragVars, built>>

\* `*bezier_id += 1` reads the counter ...
Load(t) ==
    /\ pc[t] = "locked"
    /\ loaded' = [loaded EXCEPT ![t] = BEZIER_ID]
    /\ pc' = [pc EXCEPT ![t] = "loaded"]
    /\ UNCHANGED <<BEZIER_ID, mutex, result, calls, issued>>
    /\ UNCHANGED <<dragVars, built>>

\* ... and writes it back plus one.
Store(t) ==
    /\ pc[t] = "loaded"
    /\ BEZIER_ID' = loaded[t] + 1
    /\ pc' = [pc EXCEPT ![t] = "stored"]
    /\ UNCHANGED <<mutex, loaded, result, calls, issued>>
    /\ UNCHANGED <<dragVars, built>>

\* The tail expression `*bezier_id`.
Read(t) ==
    /\ pc[t] = "stored"
    /\ result' = [result EXCEPT ![t] = BEZIER_ID]
    /\ pc' = [pc EXCEPT ![t] = "read"]
    /\ UNCHANGED <<BEZIER_ID, mutex, loaded, calls, issued>>
    /\ UNCHANGED <<dragVars, built>>

\* The guard is dropped and the value returned.
Return(t) ==
    /\ pc[t] = "read"
    /\ mutex' = IF mutex = Some(t) THEN None ELSE mutex
    /\ issued' = Append(issued, [thread |-> t, value |-> result[t]])
    /\ pc' = [pc EXCEPT ![t] = "idle"]
    /\ UNCHANGED <<BEZIER_ID, loaded, result, calls>>
    /\ UNCHANGED <<dragVars, built>>

AllocNext ==
    \/ \E t \in Threads : Call(t)
    \/ \E t \in Threads : Lock(t)
    \/ \E t \in Threads : Load(t)
    \/ \E t \in Threads : Store(t)
    \/ \E t \in Threads : Read(t)
    \/ \E t \in Threads : Return(t)

SpecAlloc == Init /\ [][AllocNext]_vars

----------------------------------------------------------------------------
(* bezier_open, called directly by the host *)

BuildInit ==
    /\ DragInit
    /\ AllocInit
    /\ \E args \in BuildArgs : built = [args |-> args, shapes |-> None]

Build ==
    /\ IsNone(built.shapes)
    /\ built' = [built EXCEPT !.shapes =
                    Some(bezier_open(built.args.st, built.args.id, built.args.a,
                                     built.args.b, built.args.c, built.args.d))]
    /\ UNCHANGED <<dragVars, allocVars>>

BuildNext == Build

SpecBuild == BuildInit /\ [][BuildNext]_vars

----------------------------------------------------------------------------
(* Properties *)

\* The logical entry of a curve primitive: its role and position-or-none.
Entry(bezier_shape) == <<bezier_shape.shape_type, bezier_shape.point>>
BuiltBezier(pair) == Unwrap(pair.shape_type.bezier)

\* How many pairs of `shapes` have role `role`.
BuiltCount(shapes, role) ==
    Cardinality({i \in 1..Len(shapes) :
                   shapes[i].shape_type.variant = "Bezier"
                   /\ BuiltBezier(shapes[i]).shape_type = role})

\* The role counts and tags the builder is said to produce from `args`.
BuiltAsSpecified(shapes, args) ==
    /\ \A i \in 1..Len(shapes) :
          /\ shapes[i].shape_type.variant = "Bezier"
          /\ BuiltBezier(shapes[i]).id = args.id
          /\ BuiltBezier(shapes[i]).shape_type \in BezierShapeType
          /\ BuiltBezier(shapes[i]).shape_type \in {"Line", "BezierLine"}
                => BuiltBezier(shapes[i]).point = None
    /\ \A role \in AnchorTypes : BuiltCount(shapes, role) = 1
    /\ BuiltCount(shapes, "Line") = 3
    /\ BuiltCount(shapes, "BezierLine") = 1
    /\ \E i \in 1..Len(shapes) : Entry(BuiltBezier(shapes[i])) = <<"Start", Some(args.a)>>
    /\ \E i \in 1..Len(shapes) : Entry(BuiltBezier(shapes[i])) = <<"ControlStart", Some(args.b)>>
    /\ \E i \in 1..Len(shapes) : Entry(BuiltBezier(shapes[i])) = <<"ControlEnd", Some(args.c)>>
    /\ \E i \in 1..Len(shapes) : Entry(BuiltBezier(shapes[i])) = <<"End", Some(args.d)>>

\* C1 as stated: bezier_open returns exactly 9 primitives: one per anchor
\* role carrying its input position, 3 Line and 1 BezierLine carrying no
\* position, all tagged with the supplied id.
C1_NinePrimitives ==
    IsSome(built.shapes) =>
        /\ Len(Unwrap(built.shapes)) = 9
        /\ BuiltAsSpecified(Unwrap(built.shapes), built.args)

\* C1 amended: bezier_open returns exactly 8 primitives (4 + 3 + 1): one per
\* anchor role carrying its input position unchanged, 3 Line and 1
\* BezierLine carrying no position, all tagged with the supplied id.
C1_EightPrimitives ==
    IsSome(built.shapes) =>
        /\ Len(Unwrap(built.shapes)) = 8
        /\ BuiltAsSpecified(Unwrap(built.shapes), built.args)

C1_Witness ==
    /\ IsSome(built.shapes)
    /\ built.args.st = BezierStyleHost
    /\ built.args.id = 7
    /\ built.args.a = Vec2(0, 0)
    /\ built.args.b = Vec2(10, 0)
    /\ built.args.c = Vec2(-3, 4)
    /\ built.args.d = Vec2(10, 0)

\* A drag is active: the pointer is dragging a curve primitive.
DragActive ==
    /\ panic = "none"
    /\ IsSome(pointer)
    /\ IsBezier(world, Unwrap(pointer))

\* This step is a Drag-Update delivered to bezier_drag.
DragUpdateStep == steps' = steps + 1 /\ lastEvent'.handler = "bezier_drag"
\* This step is a Drag-End delivered to drag_end.
DragEndStep == steps' = steps + 1 /\ lastEvent'.handler = "drag_end"

\* The Drag State slot of an anchor role.
SlotOf(role) ==
    CASE role = "Start"        -> "a"
      [] role = "ControlStart" -> "b"
      [] role = "ControlEnd"   -> "c"
      [] role = "End"          -> "d"
Slots == {"a", "b", "c", "d"}

\* (x, y) moved by the pointer delta (dx, dy): (x + dx, y - dy).
SceneMoved(o, delta) ==
    Some(<<Unwrap(o)[1] + Unwrap(delta)[1], Unwrap(o)[2] - Unwrap(delta)[2]>>)

\* C2: while a drag is active on an anchor role, a Drag-Update with delta
\* (dx, dy) replaces exactly the matching anchor (x, y) by (x + dx, y - dy)
\* and leaves the other three anchors unchanged.
C2_AnchorDragMovesOnlyThatAnchor ==
    [][(DragActive /\ DragUpdateStep /\ drag.dragging \in AnchorTypes) =>
          /\ panic' = "none"
          /\ drag'[SlotOf(drag.dragging)]
                = SceneMoved(drag[SlotOf(drag.dragging)], lastEvent'.delta)
          /\ \A f \in Slots \ {SlotOf(drag.dragging)} : drag'[f] = drag[f]]_vars

\* The example: curve 7, Start dragged by (5, -5), then once more.
C2_Witness ==
    /\ lastEvent.handler = "bezier_drag"
    /\ lastEvent.delta = Some(Vec2(5, -5))
    /\ panic = "none"
    /\ drag.bezier_id = 7
    /\ drag.dragging = "Start"
    /\ drag.a = Some(Vec2(10, 10))
    /\ drag.b = Some(Vec2(10, 0))
    /\ drag.c = Some(Vec2(10, 10))
    /\ drag.d = Some(Vec2(0, 10))

\* C3: while a drag is active on the BezierLine role, a Drag-Update with
\* delta (dx, dy) moves all four anchors by (dx, -dy).
C3_BezierLineDragTranslates ==
    [][(DragActive /\ DragUpdateStep /\ drag.dragging = "BezierLine") =>
          /\ panic' = "none"
          /\ \A f \in Slots : drag'[f] = SceneMoved(drag[f], lastEvent'.delta)]_vars

C3_Witness ==
    /\ lastEvent.handler = "bezier_drag"
    /\ lastEvent.delta = Some(Vec2(-3, 2))
    /\ panic = "none"
    /\ drag.bezier_id = 7
    /\ drag.dragging = "BezierLine"
    /\ drag.a = Some(Vec2(-3, -2))
    /\ drag.b = Some(Vec2(7, -2))
    /\ drag.c = Some(Vec2(7, 8))
    /\ drag.d = Some(Vec2(-3, 8))

\* C4: while a drag is active on the Line role, a Drag-Update leaves all
\* four anchors unchanged.
C4_LineDragKeepsAnchors ==
    [][(DragActive /\ DragUpdateStep /\ drag.dragging = "Line") =>
          /\ panic' = "none"
          /\ \A f \in Slots : drag'[f] = drag[f]]_vars

C4_Witness ==
    /\ lastEvent.handler = "bezier_drag"
    /\ panic = "none"
    /\ IsSome(drag.entity)
    /\ drag.dragging = "Line"
    /\ drag.a = Some(Vec2(0, 0))
    /\ drag.d = Some(Vec2(0, 10))

\* A Drag-Update of an active drag has just been applied.
AfterDragUpdate == DragActive /\ lastEvent.handler = "bezier_drag"

\* The curve rebuilt from the Drag State anchors.
Rebuilt ==
    bezier_open(style, drag.bezier_id, Unwrap(drag.a), Unwrap(drag.b),
                Unwrap(drag.c), Unwrap(drag.d))

\* The primitives `live` and the pairs `shapes` hold the same multiset of
\* (role, position-or-none) entries.
SameEntries(live, shapes) ==
    LET entries == {Entry(BezierOf(world, e)) : e \in live}
                   \cup {Entry(BuiltBezier(shapes[i])) : i \in 1..Len(shapes)}
    IN \A x \in entries :
          Cardinality({e \in live : Entry(BezierOf(world, e)) = x})
            = Cardinality({i \in 1..Len(shapes) : Entry(BuiltBezier(shapes[i])) = x})

\* C5 as stated: after a Drag-Update the live primitives of the dragged
\* curve hold the same 9 entries as the curve rebuilt from the updated
\* anchors, no extra and no missing.
C5_LiveEqualsRebuilt ==
    AfterDragUpdate =>
        /\ Len(Rebuilt) = 9
        /\ SameEntries(CurveEntities(world, drag.bezier_id), Rebuilt)

\* C5 amended: after a Drag-Update the live primitives of the dragged curve
\* other than the hidden dragged primitive hold the same 8 entries as the
\* curve rebuilt from the updated anchors, no extra and no missing.
C5_LiveButDraggedEqualsRebuilt ==
    AfterDragUpdate =>
        /\ Len(Rebuilt) = 8
        /\ IsSome(drag.entity)
        /\ Cardinality(CurveEntities(world, drag.bezier_id) \ {Unwrap(drag.entity)}) = 8
        /\ SameEntries(CurveEntities(world, drag.bezier_id) \ {Unwrap(drag.entity)},
                       Rebuilt)

\* After a second update of a drag of ControlEnd on curve 8.
C5_Witness ==
    /\ AfterDragUpdate
    /\ steps = 3
    /\ drag.bezier_id = 8
    /\ drag.dragging = "ControlEnd"
    /\ drag.c = Some(Vec2(32, 13))
    /\ Cardinality(CurveEntities(world, 8)) = 9

\* The live primitives of curve `id` with role `role`.
LiveCount(id, role) ==
    Cardinality({e \in CurveEntities(world, id) : BezierOf(world, e).shape_type = role})

\* C6: at any time each live curve has exactly one live primitive of each
\* anchor role, exactly three Line primitives and exactly one BezierLine.
C6_RoleCounts ==
    panic = "none" =>
        \A k \in 1..NumCurves :
            /\ \A role \in AnchorTypes : LiveCount(SeedId(k), role) = 1
            /\ LiveCount(SeedId(k), "Line") = 3
            /\ LiveCount(SeedId(k), "BezierLine") = 1

AnchorsPresent == \A f \in Slots : IsSome(drag[f])

\* C7: the assertions at the end of drag_start never fail, and all four
\* Drag State anchors are present while a drag is active.
C7_AlwaysMaterialized ==
    /\ panic # "drag_start_assert"
    /\ DragActive => AnchorsPresent

\* C8: Drag-End of an active drag destroys the primitive Drag State
\* references and nothing else, spawns nothing, and leaves Drag State with
\* curve id 0 and every optional field empty.
C8_DragEndClears ==
    [][(DragActive /\ DragEndStep) =>
          /\ panic' = "none"
          /\ IsSome(drag.entity)
          /\ Unwrap(drag.entity) \in DOMAIN world
          /\ DOMAIN world' = DOMAIN world \ {Unwrap(drag.entity)}
          /\ \A e \in DOMAIN world' : world'[e] = world[e]
          /\ drag'.bezier_id = 0
          /\ drag'.entity = None
          /\ drag'.start_click = None
          /\ \A f \in Slots : drag'[f] = None]_vars

\* Drag-End after a drag of End on curve 7 with two updates.
C8_Witness ==
    /\ lastEvent.handler = "drag_end"
    /\ panic = "none"
    /\ steps = 4
    /\ pointer = None
    /\ drag.dragging = "End"
    /\ \E e \in CurveEntities(world, 7) : Entry(BezierOf(world, e)) = <<"End", Some(Vec2(2, 13))>>

\* No drag is active: no pointer drag is in progress, or it is on a
\* primitive that is not curve-tagged.
NoDragActive == IsNone(pointer) \/ ~IsBezier(world, Unwrap(pointer))

\* C9: whenever no drag is active, the four Drag State anchors are absent
\* and the active-primitive reference is empty.
C9_IdleHasNoAnchors ==
    NoDragActive => (drag.entity = None /\ \A f \in Slots : drag[f] = None)

\* A Drag-Start on a Sketch primitive after a complete drag with an update.
C9_Witness ==
    /\ lastEvent.handler = "drag_start"
    /\ steps = 4
    /\ IsSome(pointer)
    /\ Matches(world, Unwrap(pointer))
    /\ Unwrap(world[Unwrap(pointer)].shape_type).variant = "Sketch"
    /\ drag.dragging = "BezierLine"
    /\ \E e \in CurveEntities(world, 7) : Entry(BezierOf(world, e)) = <<"Start", Some(Vec2(5, 5))>>

\* C10: the values new_id has returned so far, in order of return, are
\* 1, 2, ..., N: distinct, contiguous, starting at 1.
C10_IdsContiguousFromOne ==
    \A i \in 1..Len(issued) : issued[i].value = i

\* Every call returned, with the two threads' calls interleaved.
C10_Witness ==
    /\ Len(issued) = NumThreads * MaxCalls
    /\ issued[1].thread # issued[2].thread
    /\ issued[2].thread # issued[3].thread

\* This step is a Drag-Start delivered to drag_start.
DragStartStep == steps' = steps + 1 /\ lastEvent'.handler = "drag_start"
\* The primitive this step's event is delivered to.
StepTarget == Unwrap(lastEvent'.target)

\* C11: Drag-Start on a primitive that is not curve-tagged changes neither
\* the Drag State nor the existence or visibility of any primitive.
C11_NonCurveDragStartIsNoOp ==
    [][(DragStartStep /\ ~IsBezier(world, StepTarget)) =>
          /\ drag' = drag
          /\ DOMAIN world' = DOMAIN world
          /\ \A e \in DOMAIN world : world'[e].hidden = world[e].hidden]_vars

\* C12: the primitive that received Drag-Start is hidden, not destroyed: it
\* stays live and equal to Drag State's active-primitive reference through
\* every Drag-Update, and only the matching Drag-End destroys it.
C12_DraggedPrimitiveHiddenUntilEnd ==
    [][/\ (DragStartStep /\ IsBezier(world, StepTarget) /\ panic' = "none") =>
             /\ StepTarget \in DOMAIN world'
             /\ world'[StepTarget] = [world[StepTarget] EXCEPT !.hidden = TRUE]
             /\ drag'.entity = Some(StepTarget)
       /\ (DragActive /\ DragUpdateStep) =>
             /\ drag.entity = pointer
             /\ drag'.entity = drag.entity
             /\ Unwrap(drag.entity) \in DOMAIN world'
             /\ world'[Unwrap(drag.entity)] = world[Unwrap(drag.entity)]
             /\ world'[Unwrap(drag.entity)].hidden
       /\ (DragActive /\ DragEndStep) =>
             /\ drag.entity = pointer
             /\ Unwrap(drag.entity) \in DOMAIN world
             /\ Unwrap(drag.entity) \notin DOMAIN world'
       /\ (DragActive /\ Unwrap(pointer) \notin DOMAIN world') => DragEndStep]_vars

\* The dragged BezierLine primitive of curve 8, hidden and live after two
\* Drag-Updates.
C12_Witness ==
    /\ DragActive
    /\ lastEvent.handler = "bezier_drag"
    /\ steps = 3
    /\ drag.entity = pointer
    /\ world[Unwrap(pointer)].hidden
    /\ Entry(BezierOf(world, Unwrap(pointer))) = <<"BezierLine", None>>
    /\ drag.bezier_id = 8
    /\ drag.a = Some(Vec2(30, 10))

\* The curve id this step's drag is about: the id of the Drag-Start's
\* target, the Drag State's curve id for a Drag-Update or Drag-End.
StepCurve ==
    IF DragStartStep
    THEN IF IsBezier(world, StepTarget) THEN BezierOf(world, StepTarget).id ELSE 0
    ELSE drag.bezier_id

\* C13: a drag on one curve affects only that curve: Drag-Start takes the
\* anchors from primitives of the dragged curve only, every despawned and
\* spawned primitive carries the dragged curve's id, and the primitives of
\* every other curve (their set, tags and positions) are unchanged.
C13_OtherCurvesUntouched ==
    [][/\ \A k \in 1..NumCurves :
             SeedId(k) # StepCurve =>
                /\ CurveEntities(world', SeedId(k)) = CurveEntities(world, SeedId(k))
                /\ \A e \in CurveEntities(world, SeedId(k)) : world'[e] = world[e]
       /\ (DragStartStep /\ IsBezier(world, StepTarget)) =>
             \A role \in AnchorTypes :
                IsSome(drag'[SlotOf(role)]) =>
                   \E e \in CurveEntities(world, StepCurve) :
                      Entry(BezierOf(world, e)) = <<role, drag'[SlotOf(role)]>>
       /\ \A e \in DOMAIN world' \ DOMAIN world :
             IsBezier(world', e) /\ BezierOf(world', e).id = drag.bezier_id
       /\ \A e \in DOMAIN world \ DOMAIN world' :
             IsBezier(world, e) /\ BezierOf(world, e).id = drag.bezier_id]_vars

\* Curve 8 dragged by its Start marker and released; curve 7 is as seeded.
C13_Witness ==
    /\ lastEvent.handler = "drag_end"
    /\ panic = "none"
    /\ steps = 3
    /\ \E e \in CurveEntities(world, 8) :
          Entry(BezierOf(world, e)) = <<"Start", Some(Vec2(25, 5))>>
    /\ CurveEntities(world, 7) = 5..12
    /\ \A e \in 5..12 : world[e] = SeedWorld(NumCurves)[e]

\* A Drag-Update of an active drag of a Line primitive.
LineDragUpdate == DragActive /\ DragUpdateStep /\ drag.dragging = "Line"

\* C14 as stated: a Drag-Update while the dragged role is Line returns
\* early: it leaves the Drag State unchanged, despawns and spawns no
\* primitive and raises no error.
C14_LineDragUpdateChangesNothing ==
    [][LineDragUpdate =>
          /\ panic' = "none"
          /\ drag' = drag
          /\ DOMAIN world' = DOMAIN world]_vars

\* C14 amended: a Drag-Update while the dragged role is Line raises no
\* error and leaves the Drag State unchanged, but it does not return early:
\* it despawns every primitive of the curve other than the dragged one and
\* spawns the 8 primitives rebuilt from the unchanged anchors.
C14_LineDragUpdateRespawns ==
    [][LineDragUpdate =>
          /\ panic' = "none"
          /\ drag' = drag
          /\ DOMAIN world \ DOMAIN world'
                = CurveEntities(world, drag.bezier_id) \ {Unwrap(pointer)}
          /\ Cardinality(DOMAIN world' \ DOMAIN world) = 8
          /\ \A i \in 1..Len(Rebuilt) :
                \E e \in DOMAIN world' \ DOMAIN world :
                   /\ world'[e].shape = Some(Rebuilt[i].shape)
                   /\ world'[e].shape_type = Some(Rebuilt[i].shape_type)
                   /\ ~world'[e].hidden
          /\ \A e \in DOMAIN world \cap DOMAIN world' : world'[e] = world[e]]_vars

\* After a Drag-Update of a drag of a Line primitive of curve 7: the seeded
\* primitives 5..12 are gone but the dragged one, and 8 new ones are live.
C14_Witness ==
    /\ DragActive
    /\ lastEvent.handler = "bezier_drag"
    /\ drag.dragging = "Line"
    /\ drag.bezier_id = 7
    /\ drag.a = Some(Vec2(0, 0))
    /\ Cardinality(CurveEntities(world, 7) \cap (5..12)) = 1
    /\ Cardinality(CurveEntities(world, 7) \ (5..12)) = 8

\* C15: Drag-End fired while Drag State holds no active-primitive
\* reference panics, destroys no primitive and leaves Drag State as it was.
C15_DragEndWithoutReferencePanics ==
    [][(DragEndStep /\ drag.entity = None) =>
          /\ panic = "none"
          /\ panic' = "drag_end_unwrap"
          /\ world' = world
          /\ drag' = drag]_vars

\* A complete drag of End on curve 7, then a Drag-Start on the Main
\* primitive (which starts no drag) and its Drag-End.
C15_Witness ==
    /\ panic = "drag_end_unwrap"
    /\ lastEvent.handler = "drag_end"
    /\ steps = 5
    /\ IsSome(pointer)
    /\ Matches(world, Unwrap(pointer))
    /\ Unwrap(world[Unwrap(pointer)].shape_type).variant = "Main"
    /\ drag.entity = None
    /\ drag.dragging = "End"
    /\ Cardinality(CurveEntities(world, 7)) = 8

\* The seeded curve with id `id`.
CurveIndex(id) == CHOOSE k \in 1..NumCurves : SeedId(k) = id

\* C16: after a complete drag on a curve that contained a Drag-Update, the
\* next Drag-Start on a primitive of that curve reconstructs the anchors
\* the Drag State held at the last Drag-Update of that drag.
C16_EditsPersistAcrossDrags ==
    [][(/\ DragStartStep
        /\ IsBezier(world, StepTarget)
        /\ IsSome(updated[CurveIndex(StepCurve)])) =>
          /\ panic' = "none"
          /\ Anchors(drag') = Unwrap(updated[CurveIndex(StepCurve)])]_vars

\* Start of curve 7 dragged by (5,-5) and then (-3,2) and released; the
\* next Drag-Start, on the End marker, finds a = (2,3).
C16_Witness ==
    /\ lastEvent.handler = "drag_start"
    /\ panic = "none"
    /\ steps = 5
    /\ drag.bezier_id = 7
    /\ drag.dragging = "End"
    /\ drag.a = Some(Vec2(2, 3))
    /\ drag.b = Some(Vec2(10, 0))
    /\ drag.c = Some(Vec2(10, 10))
    /\ drag.d = Some(Vec2(0, 10))

\* The live primitives of curve `id` with role `role` in world `w`.
RoleCount(w, id, role) ==
    Cardinality({e \in CurveEntities(w, id) : BezierOf(w, e).shape_type = role})

\* C17: a drag with zero Drag-Updates destroys the clicked primitive and
\* spawns no replacement: Drag-Start destroys and spawns nothing, and the
\* Drag-End that follows it directly leaves the curve with exactly one live
\* primitive fewer, the missing one being of the clicked role.
C17_ZeroUpdateDragLosesPrimitive ==
    [][/\ (DragStartStep /\ IsBezier(world, StepTarget) /\ panic' = "none") =>
             /\ DOMAIN world' = DOMAIN world
             /\ \A e \in DOMAIN world : world'[e].shape_type = world[e].shape_type
             /\ drag'.dragging = BezierOf(world, StepTarget).shape_type
       /\ (DragActive /\ DragEndStep /\ lastEvent.handler = "drag_start") =>
             /\ panic' = "none"
             /\ DOMAIN world' = DOMAIN world \ {Unwrap(pointer)}
             /\ \A e \in DOMAIN world' : world'[e] = world[e]
             /\ Cardinality(CurveEntities(world', drag.bezier_id))
                   = Cardinality(CurveEntities(world, drag.bezier_id)) - 1
             /\ \A role \in BezierShapeType :
                   RoleCount(world', drag.bezier_id, role)
                     = RoleCount(world, drag.bezier_id, role)
                         - (IF role = drag.dragging THEN 1 ELSE 0)]_vars

\* Drag-Start on the ControlStart marker of curve 7, then Drag-End: 7
\* primitives are left, none of them ControlStart.
C17_Witness ==
    /\ lastEvent.handler = "drag_end"
    /\ panic = "none"
    /\ steps = 2
    /\ drag.dragging = "ControlStart"
    /\ Cardinality(CurveEntities(world, 7)) = 7
    /\ RoleCount(world, 7, "ControlStart") = 0
    /\ Cardinality(CurveEntities(world, 8)) = 8

\* C18: Drag-End leaves the `dragging` role of the drag that just ended in
\* the Drag State, so the Drag State after Drag-End equals the default
\* Drag State exactly when the dragged role was Start.
C18_ClearKeepsDraggedRole ==
    [][(DragActive /\ DragEndStep) =>
          /\ drag.dragging = BezierOf(world, Unwrap(pointer)).shape_type
          /\ drag'.dragging = drag.dragging
          /\ (drag' = BezierDragDefault) <=> (drag.dragging = "Start")]_vars

\* After the Drag-End of a drag of the BezierLine of curve 8 with an update.
C18_Witness ==
    /\ lastEvent.handler = "drag_end"
    /\ panic = "none"
    /\ steps = 3
    /\ pointer = None
    /\ drag.dragging = "BezierLine"
    /\ drag # BezierDragDefault
    /\ [drag EXCEPT !.dragging = "Start"] = BezierDragDefault
    /\ \E e \in CurveEntities(world, 8) :
          Entry(BezierOf(world, e)) = <<"Start", Some(Vec2(17, -2))>>

====
